---- MODULE Spec2Model ----
(***************************************************************************)
(* State-machine model of rag_lcel.py: a Streamlit chat front end that     *)
(* authenticates a user, vectorizes uploaded files into a per-user         *)
(* Cassandra table, and answers questions with a retrieve / prompt /       *)
(* stream chain, keeping a windowed conversation memory and a display      *)
(* transcript in st.session_state.                                         *)
(*                                                                         *)
(* One Streamlit process serves several browser sessions.  Every user      *)
(* event re-runs the whole script for that session; the script runs of     *)
(* different sessions interleave.  A question's run is split at the        *)
(* points where chain.invoke waits on the vector store and on the model.   *)
(***************************************************************************)
EXTENDS Naturals, Sequences, FiniteSets, TLC

(***************************************************************************)
(* Bounds of the model.                                                    *)
(***************************************************************************)
Sessions == {"s1", "s2"}
Usernames == {"michel", "anna"}
\* Questions the users type and token streams the model produces (tokens "a"
\* and "b"): in the conversations of SpecChat, and in the shorter ones of Spec.
\* Spec uploads text files only.
Questions == {"q1", "q2"}
Answers == {<<"a">>, <<"b", "a">>}
FewQuestions == {"q1"}
FewAnswers == {<<"b", "a">>}
MaxQuestions == 2      \* questions in all transcripts together, Spec
MaxChatQuestions == 4  \* questions in the transcript, SpecChat
MaxRows == 6           \* rows in the keyspace

(***************************************************************************)
(* Program constants.                                                      *)
(***************************************************************************)
top_k_vectorstore == 4
top_k_memory == 3
chunk_size == 1500
chunk_overlap == 200
assistant_welcome == "welcome"

Min(a, b) == IF a <= b THEN a ELSE b
Max(a, b) == IF a >= b THEN a ELSE b

VARIABLES
    cache_resource,  \* st.cache_resource: cache key -> cached object
    tables,          \* keyspace vector_preview: table name -> rows
    auth,            \* per session: the authenticator's login state
    session_state,   \* per session: st.session_state (keys memory, messages)
    pc,              \* per session: where the session's script run stands
    turn,            \* per session: locals of the run answering a question
    before,          \* per session: st.session_state when the question came in
    connected,       \* whether the process has called Cluster.connect()
    cleared          \* history: the tables cleared and not written to since

vars == <<cache_resource, tables, auth, session_state, pc, turn, before,
          connected, cleared>>

(***************************************************************************)
(* Messages, memory.                                                       *)
(***************************************************************************)
AIMessage(c) == [type |-> "ai", content |-> c]
HumanMessage(c) == [type |-> "human", content |-> c]

EmptyState == <<>>

\* ConversationBufferWindowMemory(return_messages=True, k=top_k_memory):
\* the chat memory keeps every message, the window is cut on reading.
NewMemory == <<>>

\* A memory read that does not cut the window.
load_memory_variables_all(memory) == memory

load_memory_variables(memory) ==
    IF top_k_memory > 0
    THEN SubSeq(memory, Max(1, Len(memory) - 2 * top_k_memory + 1), Len(memory))
    ELSE <<>>

\* A save that puts the new turn before the older ones.
save_context_first(memory, question, output) ==
    <<HumanMessage(question), AIMessage(output)>> \o memory

save_context(memory, question, output) ==
    memory \o <<HumanMessage(question), AIMessage(output)>>

\* An initialisation that starts the transcript anew in every run.
init_state_anew(ss) ==
    [memory |-> IF "memory" \in DOMAIN ss THEN ss.memory ELSE NewMemory,
     messages |-> <<AIMessage(assistant_welcome)>>]

\* Lines 208-217: memory and messages are created when the keys are missing.
init_state(ss) ==
    [memory |-> IF "memory" \in DOMAIN ss THEN ss.memory ELSE NewMemory,
     messages |-> IF "messages" \in DOMAIN ss THEN ss.messages
                  ELSE <<AIMessage(assistant_welcome)>>]

(***************************************************************************)
(* Uploaded files and the text splitter.  A file is its name and its pages *)
(* (a .txt file is one page); a page is the numbers of characters of its   *)
(* paragraphs, which a blank line separates and which hold no newline and  *)
(* no space.  RecursiveCharacterTextSplitter cuts a text at its blank      *)
(* lines and merges the pieces into chunks of at most chunk_size           *)
(* characters, a chunk starting with the last pieces of the one before     *)
(* that make up at most chunk_overlap characters; a text without any       *)
(* separator is cut every chunk_size characters, restarting chunk_overlap  *)
(* characters back.  A text of several paragraphs has none of chunk_size   *)
(* characters or more.                                                     *)
(***************************************************************************)
NoFile == [name |-> "", pages |-> <<>>]
UploadedFiles == {NoFile, [name |-> "notes.txt", pages |-> << <<3400>> >>]}

\* More files: texts of 3,400 characters in paragraphs, a PDF of two pages,
\* a file that is neither.
TextFiles ==
    UploadedFiles \cup
    {[name |-> "essay.txt", pages |-> << <<1000, 1000, 1396>> >>],
     [name |-> "list.txt", pages |-> << <<900, 900, 900, 694>> >>],
     [name |-> "memo.txt", pages |-> << <<1300, 150, 1300, 150, 492>> >>],
     [name |-> "paper.pdf", pages |-> << <<1600>>, <<300>> >>],
     [name |-> "data.csv", pages |-> << <<3400>> >>]}

EndsWith(s, suffix) ==
    /\ Len(s) >= Len(suffix)
    /\ SubSeq(s, Len(s) - Len(suffix) + 1, Len(s)) = suffix

\* The characters of the separator "\n\n".
blank_line == 2

\* A text without separator, from character start on: cut character by
\* character and merged.
RECURSIVE split_text(_, _)
split_text(start, n) ==
    IF n = 0 THEN <<>>
    ELSE IF n - start <= chunk_size THEN <<[start |-> start, end |-> n]>>
    ELSE <<[start |-> start, end |-> start + chunk_size]>>
         \o split_text(start + chunk_size - chunk_overlap, n)

\* The pieces of a text cut at its blank lines; the separator stays at the
\* head of the piece that follows it.
RECURSIVE split_text_with_regex(_, _)
split_text_with_regex(paragraphs, start) ==
    IF paragraphs = <<>> THEN <<>>
    ELSE LET end == start + Head(paragraphs) + (IF start = 0 THEN 0 ELSE blank_line)
         IN  <<[start |-> start, end |-> end]>>
             \o split_text_with_regex(Tail(paragraphs), end)

\* The characters of some consecutive pieces.
Total(current) ==
    IF current = <<>> THEN 0 ELSE current[Len(current)].end - current[1].start

\* The chunk of some consecutive pieces, white space stripped at its head.
join_docs(current) ==
    IF current = <<>> THEN <<>>
    ELSE <<[start |-> IF current[1].start = 0 THEN 0
                      ELSE current[1].start + blank_line,
            end |-> current[Len(current)].end]>>

\* The pieces kept from a finished chunk for the next one, which starts
\* with a piece of len characters.
RECURSIVE keep_overlap(_, _)
keep_overlap(current, len) ==
    IF \/ Total(current) > chunk_overlap
       \/ Total(current) + len > chunk_size /\ Total(current) > 0
    THEN keep_overlap(Tail(current), len)
    ELSE current

\* The chunks merged from the pieces still to come and those collected.
RECURSIVE merge_splits(_, _)
merge_splits(splits, current) ==
    IF splits = <<>> THEN join_docs(current)
    ELSE LET d == Head(splits)
             len == d.end - d.start
         IN  IF Total(current) + len > chunk_size /\ current # <<>>
             THEN join_docs(current)
                  \o merge_splits(Tail(splits), Append(keep_overlap(current, len), d))
             ELSE merge_splits(Tail(splits), Append(current, d))

\* The chunks of one page, each from its first character to behind its last.
create_documents(paragraphs) ==
    IF Len(paragraphs) = 1 THEN split_text(0, paragraphs[1])
    ELSE merge_splits(split_text_with_regex(paragraphs, 0), <<>>)

\* The documents of one page: the page's chunks, in source order.
page_documents(file, p) ==
    LET cuts == create_documents(file.pages[p])
    IN  [i \in 1..Len(cuts) |->
            [source |-> file.name, page |-> p,
             start |-> cuts[i].start, end |-> cuts[i].end]]

RECURSIVE split_documents(_, _)
split_documents(file, p) ==
    IF p > Len(file.pages) THEN <<>>
    ELSE page_documents(file, p) \o split_documents(file, p + 1)

\* vectorize_text: the documents handed to vectorstore.add_documents.
vectorize_text(uploaded_file) ==
    IF uploaded_file = NoFile THEN <<>>
    ELSE IF EndsWith(uploaded_file.name, "txt") THEN page_documents(uploaded_file, 1)
    ELSE IF EndsWith(uploaded_file.name, "pdf") THEN split_documents(uploaded_file, 1)
    ELSE <<>>

(***************************************************************************)
(* The vector store: one table per user name in keyspace vector_preview.   *)
(* A row is a document and, for the record, the user name of the run that  *)
(* wrote it.                                                               *)
(***************************************************************************)
table_name(username) == "vector_context_" \o username

\* A clear that leaves the rows in place.
clear_nothing(rows) == rows

\* vectorstore.clear() truncates the table.
clear(rows) == <<>>

\* A write that stores the first document only.
add_documents_first(rows, docs, username) ==
    rows \o [i \in 1..Min(1, Len(docs)) |-> [doc |-> docs[i], uploaded_by |-> username]]

add_documents(rows, docs, username) ==
    rows \o [i \in 1..Len(docs) |-> [doc |-> docs[i], uploaded_by |-> username]]

\* A search that has no result to return when the table holds no row.
search_results_some(rows, k) ==
    {hits \in SUBSET {[id |-> i, row |-> rows[i]] : i \in 1..Len(rows)} :
        Cardinality(hits) = Min(k, Len(rows)) /\ hits # {}}

\* A search that returns every row of the table, whatever k.
search_results_all(rows, k) ==
    {{[id |-> i, row |-> rows[i]] : i \in 1..Len(rows)}}

\* The results a similarity search for k documents can return: any k of the
\* rows (every row when there are fewer), as (row number, row) pairs.
search_results(rows, k) ==
    {hits \in SUBSET {[id |-> i, row |-> rows[i]] : i \in 1..Len(rows)} :
        Cardinality(hits) = Min(k, Len(rows))}

(***************************************************************************)
(* st.cache_resource: load_session() and load_vectorstore(username).       *)
(***************************************************************************)
session_key == <<"load_session">>

\* A cache key that leaves the argument out: one vector store for all users.
vectorstore_key_shared(username) == <<"load_vectorstore">>

vectorstore_key(username) == <<"load_vectorstore", username>>

\* Lines 151-172 of an authenticated run: the cache, the connection count, the
\* tables and the run's vectorstore after both cached loaders were called.
Loaded(username) ==
    LET miss == session_key \notin DOMAIN cache_resource
        c1   == IF miss THEN cache_resource @@ (session_key :> "session")
                ELSE cache_resource
        key  == vectorstore_key(username)
        tn   == table_name(username)
        made == key \notin DOMAIN c1
        c2   == IF made
                THEN c1 @@ (key :> [table_name |-> tn, session |-> c1[session_key]])
                ELSE c1
    IN  [cache |-> c2,
         connects |-> miss,
         tables |-> IF made /\ tn \notin DOMAIN tables
                    THEN tables @@ (tn :> <<>>) ELSE tables,
         vectorstore |-> c2[key]]

\* The rows of all tables together.
RECURSIVE Rows(_, _)
Rows(tbls, names) ==
    IF names = {} THEN 0
    ELSE LET tn == CHOOSE x \in names : TRUE
         IN  Len(tbls[tn]) + Rows(tbls, names \ {tn})

(***************************************************************************)
(* Script runs.                                                            *)
(***************************************************************************)
\* No run of the session is under way: the last one ended normally or was
\* stopped, or it raised in the search or in the model call.
Failed == {"RetrievalFailed", "GenerationFailed"}
Quiet == {"idle"} \cup Failed
InFlight == {"Retrieving", "Composing", "Generating"}
LoggedOut == {"login_form", "logged_out"}

NoTurn == [question |-> "", history |-> <<>>, table_name |-> "", context |-> {},
           prompt |-> <<>>, stream |-> <<>>, tokens |-> <<>>, text |-> "",
           shown |-> "", content |-> ""]

\* The questions shown in the transcripts of the sessions in S.
RECURSIVE Asked(_)
Asked(S) ==
    IF S = {} THEN 0
    ELSE LET s == CHOOSE x \in S : TRUE
             shown == IF "messages" \in DOMAIN session_state[s]
                      THEN session_state[s].messages ELSE <<>>
         IN  Cardinality({i \in 1..Len(shown) : shown[i].type = "human"})
             + Asked(S \ {s})

Init ==
    /\ cache_resource = <<>>
    /\ tables = <<>>
    /\ connected = FALSE
    /\ cleared = {}
    /\ auth = [s \in Sessions |-> "login_form"]
    /\ session_state = [s \in Sessions |-> EmptyState]
    /\ pc = [s \in Sessions |-> "idle"]
    /\ turn = [s \in Sessions |-> NoTurn]
    /\ before = [s \in Sessions |-> EmptyState]

\* The parts of an authenticated run that every such run shares.
Authenticated(s, username) ==
    /\ pc[s] \in Quiet
    /\ cache_resource' = Loaded(username).cache
    /\ connected' = (connected \/ Loaded(username).connects)

\* A run that ends without a question: nothing of a turn is left.
EndsIdle(s) ==
    /\ pc' = [pc EXCEPT ![s] = "idle"]
    /\ turn' = [turn EXCEPT ![s] = NoTurn]
    /\ before' = [before EXCEPT ![s] = EmptyState]

\* The run in which the login succeeds (cookie or form), lines 139-221.
Login(s, username) ==
    /\ auth[s] = "login_form"
    /\ Authenticated(s, username)
    /\ tables' = Loaded(username).tables
    /\ auth' = [auth EXCEPT ![s] = username]
    /\ session_state' = [session_state EXCEPT ![s] = init_state(@)]
    /\ EndsIdle(s)
    /\ UNCHANGED cleared

\* The run in which the Logout button was pressed, lines 139-221: the run
\* itself is still authenticated, the next one is not.
Logout(s) ==
    /\ auth[s] \in Usernames
    /\ Authenticated(s, auth[s])
    /\ tables' = Loaded(auth[s]).tables
    /\ auth' = [auth EXCEPT ![s] = "logged_out"]
    /\ session_state' = [session_state EXCEPT ![s] = init_state(@)]
    /\ EndsIdle(s)
    /\ UNCHANGED cleared

\* Lines 295-299: the login was refused.
LoginFailed(s) ==
    /\ auth[s] = "login_form"
    /\ pc[s] \in Quiet
    /\ cache_resource' = <<>>
    /\ session_state' = [session_state EXCEPT ![s] = EmptyState]
    /\ auth' = [auth EXCEPT ![s] = "login_form"]
    /\ EndsIdle(s)
    /\ UNCHANGED <<tables, connected, cleared>>

\* A run of a user who is not logged in that keeps the session state.
NotLoggedIn_keeping(s) ==
    /\ auth[s] \in LoggedOut
    /\ pc[s] \in Quiet
    /\ cache_resource' = <<>>
    /\ auth' = [auth EXCEPT ![s] = "login_form"]
    /\ EndsIdle(s)
    /\ UNCHANGED <<tables, session_state, connected, cleared>>

\* Lines 301-305: nobody is logged in; the login form is shown.
NotLoggedIn(s) ==
    /\ auth[s] \in LoggedOut
    /\ pc[s] \in Quiet
    /\ cache_resource' = <<>>
    /\ session_state' = [session_state EXCEPT ![s] = EmptyState]
    /\ auth' = [auth EXCEPT ![s] = "login_form"]
    /\ EndsIdle(s)
    /\ UNCHANGED <<tables, connected, cleared>>

\* The upload form was submitted, lines 181-186 within 139-221.
Upload(s, uploaded_file) ==
    /\ auth[s] \in Usernames
    /\ Authenticated(s, auth[s])
    /\ LET L    == Loaded(auth[s])
           tn   == L.vectorstore.table_name
           docs == vectorize_text(uploaded_file)
       IN  /\ Rows(L.tables, DOMAIN L.tables) + Len(docs) <= MaxRows
           /\ tables' = [L.tables EXCEPT ![tn] = add_documents(@, docs, auth[s])]
           /\ cleared' = IF docs = <<>> THEN cleared ELSE cleared \ {tn}
    /\ session_state' = [session_state EXCEPT ![s] = init_state(@)]
    /\ EndsIdle(s)
    /\ UNCHANGED auth

\* A drop form that every user is shown.
Clear_anyone(s) ==
    /\ auth[s] \in Usernames
    /\ Authenticated(s, auth[s])
    /\ "memory" \in DOMAIN session_state[s]
    /\ LET L  == Loaded(auth[s])
           tn == L.vectorstore.table_name
       IN  /\ tables' = [L.tables EXCEPT ![tn] = clear(@)]
           /\ cleared' = cleared \cup {tn}
    /\ session_state' = [session_state EXCEPT ![s] =
            init_state([memory |-> <<>>,
                        messages |-> <<AIMessage(assistant_welcome)>>])]
    /\ EndsIdle(s)
    /\ UNCHANGED auth

\* A drop that truncates the tables of all users.
Clear_all(s) ==
    /\ auth[s] = "michel"
    /\ Authenticated(s, auth[s])
    /\ "memory" \in DOMAIN session_state[s]
    /\ tables' = [tn \in DOMAIN Loaded(auth[s]).tables |-> <<>>]
    /\ cleared' = cleared \cup {Loaded(auth[s]).vectorstore.table_name}
    /\ session_state' = [session_state EXCEPT ![s] =
            init_state([memory |-> <<>>,
                        messages |-> <<AIMessage(assistant_welcome)>>])]
    /\ EndsIdle(s)
    /\ UNCHANGED auth

\* The drop form was submitted, lines 188-198 within 139-221.
Clear(s) ==
    /\ auth[s] = "michel"
    /\ Authenticated(s, auth[s])
    /\ "memory" \in DOMAIN session_state[s]
    /\ LET L  == Loaded(auth[s])
           tn == L.vectorstore.table_name
       IN  /\ tables' = [L.tables EXCEPT ![tn] = clear(@)]
           /\ cleared' = cleared \cup {tn}
    /\ session_state' = [session_state EXCEPT ![s] =
            init_state([memory |-> <<>>,
                        messages |-> <<AIMessage(assistant_welcome)>>])]
    /\ EndsIdle(s)
    /\ UNCHANGED auth

\* A question was entered: lines 139-282 up to the call of chain.invoke.
Ask(s, question) ==
    /\ auth[s] \in Usernames
    /\ Authenticated(s, auth[s])
    /\ LET L  == Loaded(auth[s])
           ss == init_state(session_state[s])
       IN  /\ tables' = L.tables
           /\ session_state' = [session_state EXCEPT ![s] =
                  [ss EXCEPT !.messages = Append(@, HumanMessage(question))]]
           /\ before' = [before EXCEPT ![s] = ss]
           /\ turn' = [turn EXCEPT ![s] =
                  [NoTurn EXCEPT !.question = question,
                                 !.history = load_memory_variables(ss.memory),
                                 !.table_name = L.vectorstore.table_name]]
    /\ pc' = [pc EXCEPT ![s] = "Retrieving"]
    /\ UNCHANGED <<auth, cleared>>

\* Line 277: retriever.get_relevant_documents returns.
Retrieve(s) ==
    /\ pc[s] = "Retrieving"
    /\ \E hits \in search_results(tables[turn[s].table_name], top_k_vectorstore) :
          turn' = [turn EXCEPT ![s].context = hits]
    /\ pc' = [pc EXCEPT ![s] = "Composing"]
    /\ UNCHANGED <<cache_resource, tables, auth, session_state, before,
                   connected, cleared>>

\* Line 277 raises: the script run ends with the exception.
RetrievalFails(s) ==
    /\ pc[s] = "Retrieving"
    /\ pc' = [pc EXCEPT ![s] = "RetrievalFailed"]
    /\ turn' = [turn EXCEPT ![s] = NoTurn]
    /\ UNCHANGED <<cache_resource, tables, auth, session_state, before,
                   connected, cleared>>

\* Lines 276-280: the prompt is filled in and sent; the model settles on the
\* tokens it will stream.
Compose(s, answer) ==
    /\ pc[s] = "Composing"
    /\ turn' = [turn EXCEPT ![s].prompt =
                                <<[context |-> turn[s].context,
                                   history |-> turn[s].history,
                                   question |-> turn[s].question]>>,
                            ![s].context = {},
                            ![s].stream = answer]
    /\ pc' = [pc EXCEPT ![s] = "Generating"]
    /\ UNCHANGED <<cache_resource, tables, auth, session_state, before,
                   connected, cleared>>

\* A handler that keeps the newest token only.
on_llm_new_token_newest(text, token) == token

\* StreamHandler.on_llm_new_token, line 38: the text of the handler.
on_llm_new_token(text, token) == text \o token

\* Line 39: what the placeholder is given to show.
cursor == "▌"
markdown(text) == text \o cursor

\* A token arrives, lines 37-39; the model adds the same token to the response
\* it will return.  tokens records the tokens that have arrived, in order.
Token(s) ==
    /\ pc[s] = "Generating"
    /\ turn[s].stream # <<>>
    /\ LET token == Head(turn[s].stream)
           text == on_llm_new_token(turn[s].text, token)
       IN  turn' = [turn EXCEPT ![s].text = text,
                                ![s].shown = markdown(text),
                                ![s].tokens = Append(@, token),
                                ![s].content = @ \o token,
                                ![s].stream = Tail(@)]
    /\ UNCHANGED <<cache_resource, tables, auth, session_state, pc, before,
                   connected, cleared>>

\* A failure that still records the turn, with what was streamed so far.
GenerationFails_saving(s) ==
    /\ pc[s] = "Generating"
    /\ pc' = [pc EXCEPT ![s] = "GenerationFailed"]
    /\ session_state' = [session_state EXCEPT ![s].memory =
          save_context(@, turn[s].question, turn[s].content)]
    /\ turn' = [turn EXCEPT ![s] = NoTurn]
    /\ UNCHANGED <<cache_resource, tables, auth, before, connected, cleared>>

\* The model call fails or the stream breaks: chain.invoke raises.
GenerationFails(s) ==
    /\ pc[s] = "Generating"
    /\ pc' = [pc EXCEPT ![s] = "GenerationFailed"]
    /\ turn' = [turn EXCEPT ![s] = NoTurn]
    /\ UNCHANGED <<cache_resource, tables, auth, session_state, before,
                   connected, cleared>>

\* A stop that still records the turn, with what was streamed so far.
Abandon_saving(s) ==
    /\ pc[s] = "Generating"
    /\ session_state' = [session_state EXCEPT ![s].memory =
          save_context(@, turn[s].question, turn[s].content)]
    /\ EndsIdle(s)
    /\ UNCHANGED <<cache_resource, tables, auth, connected, cleared>>

\* The run is stopped while the answer streams (new user event, session end):
\* Streamlit raises in the next st call, which is in the token callback or at
\* line 287.
Abandon(s) ==
    /\ pc[s] = "Generating"
    /\ EndsIdle(s)
    /\ UNCHANGED <<cache_resource, tables, auth, session_state, connected, cleared>>

\* A completion that saves the turn to the memory and shows no answer.
Complete_unlisted(s) ==
    /\ pc[s] = "Generating"
    /\ turn[s].stream = <<>>
    /\ session_state' = [session_state EXCEPT ![s].memory =
          save_context(@, turn[s].question, turn[s].content)]
    /\ EndsIdle(s)
    /\ UNCHANGED <<cache_resource, tables, auth, connected, cleared>>

\* A completion that does not wait for the end of the stream.
Complete_early(s) ==
    /\ pc[s] = "Generating"
    /\ session_state' = [session_state EXCEPT ![s] =
          [memory |-> save_context(@.memory, turn[s].question, turn[s].content),
           messages |-> Append(@.messages, AIMessage(turn[s].content))]]
    /\ EndsIdle(s)
    /\ UNCHANGED <<cache_resource, tables, auth, connected, cleared>>

\* chain.invoke returns; lines 284-293.
Complete(s) ==
    /\ pc[s] = "Generating"
    /\ turn[s].stream = <<>>
    /\ session_state' = [session_state EXCEPT ![s] =
          [memory |-> save_context(@.memory, turn[s].question, turn[s].content),
           messages |-> Append(@.messages, AIMessage(turn[s].content))]]
    /\ EndsIdle(s)
    /\ UNCHANGED <<cache_resource, tables, auth, connected, cleared>>

Next ==
    \E s \in Sessions :
        \/ \E username \in Usernames : Login(s, username)
        \/ Logout(s)
        \/ LoginFailed(s)
        \/ NotLoggedIn(s)
        \/ \E uploaded_file \in UploadedFiles : Upload(s, uploaded_file)
        \/ Clear(s)
        \/ \E question \in FewQuestions :
              Asked(Sessions) < MaxQuestions /\ Ask(s, question)
        \/ Retrieve(s)
        \/ RetrievalFails(s)
        \/ \E answer \in FewAnswers : Compose(s, answer)
        \/ Token(s)
        \/ GenerationFails(s)
        \/ Abandon(s)
        \/ Complete(s)

Spec == Init /\ [][Next]_vars

\* One browser session that only chats: longer conversations.
ChatSession == "s1"

NextChat ==
    \/ \E username \in Usernames : Login(ChatSession, username)
    \/ Logout(ChatSession)
    \/ LoginFailed(ChatSession)
    \/ NotLoggedIn(ChatSession)
    \/ Clear(ChatSession)
    \/ \E question \in Questions :
          Asked({ChatSession}) < MaxChatQuestions /\ Ask(ChatSession, question)
    \/ Retrieve(ChatSession)
    \/ RetrievalFails(ChatSession)
    \/ \E answer \in Answers : Compose(ChatSession, answer)
    \/ Token(ChatSession)
    \/ GenerationFails(ChatSession)
    \/ Abandon(ChatSession)
    \/ Complete(ChatSession)

SpecChat == Init /\ [][NextChat]_vars

\* Sessions that only log in and out, upload files of all kinds and clear.
NextUpload ==
    \E s \in Sessions :
        \/ \E username \in Usernames : Login(s, username)
        \/ Logout(s)
        \/ LoginFailed(s)
        \/ NotLoggedIn(s)
        \/ \E uploaded_file \in TextFiles : Upload(s, uploaded_file)
        \/ Clear(s)

SpecUpload == Init /\ [][NextUpload]_vars

(***************************************************************************)
(* Properties.                                                             *)
(***************************************************************************)
Memory(s) == session_state[s].memory
Messages(s) == session_state[s].messages
HasState(s) == DOMAIN session_state[s] = {"memory", "messages"}

\* The chunks a running turn holds as context: the search result, then the
\* context slot of the prompt.
Context(s) ==
    turn[s].context \cup UNION {p.context : p \in {turn[s].prompt[i] : i \in DOMAIN turn[s].prompt}}

\* C1: every chunk retrieved as context for a question asked in a session
\* authenticated as A was uploaded by a run authenticated as A, never by a
\* run of another user, whatever the interleaving of the sessions.
C1_TenantIsolation ==
    \A s \in Sessions : \A hit \in Context(s) : hit.row.uploaded_by = auth[s]

\* A turn holds retrieved chunks while another user's table holds rows too.
C1_Witness ==
    \E s \in Sessions :
        /\ pc[s] = "Generating"
        /\ Context(s) # {}
        /\ \E u \in Usernames \ {auth[s]} :
              /\ table_name(u) \in DOMAIN tables
              /\ tables[table_name(u)] # <<>>

\* C4: the connection is established at most once: when load_session has
\* connected, no later run of any session finds the cache without the
\* connection and connects again.
C4_ConnectOnce ==
    [][connected =>
          ~ (/\ session_key \notin DOMAIN cache_resource
             /\ session_key \in DOMAIN cache_resource')]_vars

\* C7: when the clear action has run on a user's table and nothing was
\* uploaded to it since, a search for a question of that user returns no
\* chunk.
C7_EmptyAfterClear ==
    [][\A s \in Sessions :
          (/\ pc[s] = "Retrieving"
           /\ pc'[s] = "Composing"
           /\ turn[s].table_name \in cleared) => turn'[s].context = {}]_vars

\* A search on a cleared table returned nothing, while another turn still
\* holds chunks it found in that table before the clear.
C7_Witness ==
    \E s \in Sessions :
        /\ pc[s] = "Composing"
        /\ turn[s].table_name \in cleared
        /\ turn[s].context = {}
        /\ \E t \in Sessions \ {s} :
              /\ pc[t] = "Generating"
              /\ \E hit \in Context(t) : hit.row.uploaded_by = auth[s]

(***************************************************************************)
(* The conversation: transcript and memory.                                *)
(***************************************************************************)
IsPrefix(a, b) == Len(a) <= Len(b) /\ SubSeq(b, 1, Len(a)) = a
IsSuffix(a, b) == Len(a) <= Len(b) /\ SubSeq(b, Len(b) - Len(a) + 1, Len(b)) = a
LastOnes(a, n) == SubSeq(a, Max(1, Len(a) - n + 1), Len(a))

\* The snapshot of the memory that a prompt would get.
Snapshot(s) == load_memory_variables(Memory(s))

\* The answered questions of a transcript, each followed by its answer.
RECURSIVE Exchanges(_)
Exchanges(m) ==
    IF Len(m) < 2 THEN <<>>
    ELSE IF m[1].type = "human" /\ m[2].type = "ai"
         THEN <<m[1], m[2]>> \o Exchanges(SubSeq(m, 3, Len(m)))
         ELSE Exchanges(Tail(m))

\* The text of a token stream, and the full answers the model can give.
RECURSIVE Join(_)
Join(tokens) == IF tokens = <<>> THEN "" ELSE Head(tokens) \o Join(Tail(tokens))
FullAnswers == {Join(answer) : answer \in Answers}

\* C2: when a turn has failed in retrieval or in generation, the memory and
\* the transcript are what they were before the question was submitted.
C2_FailureRestoresState ==
    \A s \in Sessions : pc[s] \in Failed => session_state[s] = before[s]

\* C3: the snapshot never holds more than 3 turns, and after 4 or more
\* completed turns since the last clear it holds the 3 most recent ones.
C3_WindowOfThree ==
    \A s \in Sessions :
        HasState(s) =>
            /\ Len(Snapshot(s)) <= 2 * 3
            /\ Len(Exchanges(Messages(s))) >= 2 * 4 =>
                   Snapshot(s) = LastOnes(Exchanges(Messages(s)), 2 * 3)

\* Four turns were completed, the first unlike the last, and the first is
\* gone from the snapshot.
C3_Witness ==
    \E s \in Sessions :
        /\ HasState(s)
        /\ Len(Memory(s)) = 8
        /\ Memory(s)[1] # Memory(s)[7]
        /\ Memory(s)[2] # Memory(s)[8]
        /\ Snapshot(s) = SubSeq(Memory(s), 3, 8)

\* C5: when the generation of a turn has failed, the snapshot of the memory
\* is the one from before the turn: no turn with the question alone or with
\* part of an answer was recorded.
C5_GenerationFailureKeepsMemory ==
    \A s \in Sessions :
        pc[s] = "GenerationFailed" =>
            /\ Snapshot(s) = load_memory_variables(before[s].memory)
            /\ Memory(s) = before[s].memory

\* A generation failed in a conversation that has a turn in memory.
C5_Witness ==
    \E s \in Sessions : pc[s] = "GenerationFailed" /\ Memory(s) # <<>>

\* C6: a run abandoned while its answer streams leaves the memory as it was,
\* and the memory gains messages only in the step that ends a generation
\* whose stream was delivered in full: then it gains that question with that
\* answer.
C6_AbandonKeepsMemory ==
    [][\A s \in Sessions :
          HasState(s) /\ HasState(s)' =>
             /\ (/\ pc[s] = "Generating"
                 /\ pc'[s] = "idle"
                 /\ Messages(s)' = Messages(s)) => Memory(s)' = Memory(s)
             /\ Len(Memory(s)') > Len(Memory(s)) =>
                   /\ pc[s] = "Generating"
                   /\ turn[s].stream = <<>>
                   /\ Memory(s)' = Memory(s) \o <<HumanMessage(turn[s].question),
                                                  AIMessage(turn[s].content)>>]_vars

\* A run was abandoned (its question is the last message, nothing raised) in
\* a conversation that has a turn in memory.
C6_Witness ==
    \E s \in Sessions :
        /\ auth[s] \in Usernames
        /\ pc[s] = "idle"
        /\ Messages(s)[Len(Messages(s))].type = "human"
        /\ Memory(s) # <<>>

\* C8, as claimed: the transcript of a session only grows, whatever the
\* user does, the clear action included.
C8_AppendOnly ==
    [][\A s \in Sessions :
          HasState(s) /\ HasState(s)' =>
              IsPrefix(Messages(s), Messages(s)')]_vars

\* C8, amended: the transcript of a session only grows, except that the
\* clear action (of the user michel, between runs) puts the single welcome
\* message in its place; the transcript goes only in a run of a user who is
\* not logged in, with the rest of the session state.
C8_AppendOnlyButClear ==
    [][\A s \in Sessions :
          HasState(s) =>
              \/ HasState(s)' /\ IsPrefix(Messages(s), Messages(s)')
              \/ /\ HasState(s)'
                 /\ auth[s] = "michel"
                 /\ pc[s] \in Quiet
                 /\ table_name(auth[s]) \in cleared'
                 /\ Messages(s)' = <<AIMessage(assistant_welcome)>>
              \/ /\ ~ HasState(s)'
                 /\ auth[s] \in LoggedOut]_vars

\* A transcript that was cleared and has grown again.
C8_Witness ==
    \E s \in Sessions :
        /\ auth[s] = "michel"
        /\ table_name(auth[s]) \in cleared
        /\ HasState(s)
        /\ Len(Messages(s)) >= 3

\* C9: between the runs of an authenticated session, the messages of the
\* snapshot are the last messages of the transcript, in the same order.
C9_MemoryIsSuffix ==
    \A s \in Sessions :
        auth[s] \in Usernames /\ pc[s] \in Quiet /\ HasState(s) =>
            IsSuffix(Snapshot(s), Messages(s))

\* C10: up to 3 completed turns since the last clear, the snapshot holds
\* exactly these turns, in the order they completed, each with the full
\* answer of the model; the history of the prompt of a running turn holds
\* the turns completed before it and not its own question.
C10_SnapshotIsTheTurns ==
    \A s \in Sessions :
        HasState(s) =>
            /\ Len(Exchanges(Messages(s))) <= 2 * 3 =>
                  /\ Snapshot(s) = Exchanges(Messages(s))
                  /\ \A i \in 1..Len(Snapshot(s)) :
                        Snapshot(s)[i].type = "ai" =>
                            Snapshot(s)[i].content \in FullAnswers
            /\ pc[s] \in InFlight /\ Len(Exchanges(before[s].messages)) <= 2 * 3 =>
                  turn[s].history = Exchanges(before[s].messages)

\* The third question is being answered; its history holds the two turns
\* before it, which differ.
C10_Witness ==
    \E s \in Sessions :
        /\ pc[s] = "Generating"
        /\ Len(turn[s].history) = 4
        /\ turn[s].history[1] # turn[s].history[3]
        /\ turn[s].history[2] # turn[s].history[4]
        /\ Snapshot(s) = turn[s].history

(***************************************************************************)
(* The phases of a turn.                                                   *)
(***************************************************************************)
\* C11: a question asked while the table of its user holds no row is still
\* answered: the search can return, and returns no chunk; the prompt is then
\* composed with an empty context, the history and the question, and sent;
\* and when the model has streamed its answer the turn can complete, which
\* records the question and the full answer in the memory and the answer in
\* the transcript.
C11_EmptyStoreStillAnswers ==
    /\ [](\A s \in Sessions :
            /\ (pc[s] = "Retrieving" /\ tables[turn[s].table_name] = <<>>) =>
                   ENABLED Retrieve(s)
            /\ (pc[s] = "Composing" /\ turn[s].context = {}) =>
                   ENABLED (\E answer \in Answers : Compose(s, answer))
            /\ (pc[s] = "Generating" /\ Context(s) = {} /\ turn[s].stream = <<>>) =>
                   ENABLED Complete(s))
    /\ [][\A s \in Sessions :
            /\ (/\ pc[s] = "Retrieving"
                /\ tables[turn[s].table_name] = <<>>
                /\ pc'[s] = "Composing") => turn'[s].context = {}
            /\ (/\ pc[s] = "Composing"
                /\ turn[s].context = {}
                /\ pc'[s] = "Generating") =>
                   turn'[s].prompt = <<[context |-> {},
                                        history |-> turn[s].history,
                                        question |-> turn[s].question]>>
            /\ (/\ pc[s] = "Generating"
                /\ Context(s) = {}
                /\ turn[s].stream = <<>>
                /\ pc'[s] = "idle"
                /\ session_state'[s] # session_state[s]) =>
                   /\ turn[s].content \in FullAnswers
                   /\ Memory(s)' = Memory(s) \o <<HumanMessage(turn[s].question),
                                                  AIMessage(turn[s].content)>>
                   /\ Messages(s)' = Append(Messages(s), AIMessage(turn[s].content))]_vars

\* A user who never had a row in the table got an answer, recorded in the
\* memory and the transcript, while the table of another user holds rows.
C11_Witness ==
    \E s \in Sessions :
        /\ auth[s] = "anna"
        /\ pc[s] = "idle"
        /\ {table_name("anna"), table_name("michel")} \subseteq DOMAIN tables
        /\ tables[table_name("anna")] = <<>>
        /\ tables[table_name("michel")] # <<>>
        /\ Len(Memory(s)) = 2
        /\ Memory(s)[2] = Messages(s)[Len(Messages(s))]
        /\ Memory(s)[2].content \in FullAnswers

\* The steps from one phase of a run to the next.  A question is received
\* and its search started in one step; a completed turn leaves the session
\* idle; a failed one leaves it in its failure until the next run.
PhaseSteps ==
    (Quiet \X {"Retrieving"})
    \cup {<<"Retrieving", "Composing">>, <<"Retrieving", "RetrievalFailed">>,
          <<"Composing", "Generating">>,
          <<"Generating", "GenerationFailed">>, <<"Generating", "idle">>}
    \cup (Failed \X {"idle"})

\* The answers in a sequence of messages.
Answered(m) == Cardinality({i \in 1..Len(m) : m[i].type = "ai"})

\* C12: a turn goes through its phases in the one order received and
\* retrieving, composing, generating, completed, or ends in a failure: the
\* prompt is composed from the result of the finished search, no token is
\* rendered before the prompt is composed, the answer enters the memory and
\* the transcript only when the last token was delivered, and a failed turn
\* is gone: the session answers again only for a question received anew.
C12_PhaseOrder ==
    [][\A s \in Sessions :
          /\ pc'[s] # pc[s] => <<pc[s], pc'[s]>> \in PhaseSteps
          /\ pc'[s] \in Quiet => turn'[s] = NoTurn
          /\ pc'[s] = "Retrieving" /\ pc[s] # "Retrieving" =>
                 /\ pc[s] \in Quiet
                 /\ turn'[s].context = {} /\ turn'[s].prompt = <<>>
                 /\ turn'[s].text = "" /\ turn'[s].content = ""
                 /\ Messages(s)'[Len(Messages(s)')] = HumanMessage(turn'[s].question)
          /\ turn'[s].prompt # turn[s].prompt /\ turn'[s].prompt # <<>> =>
                 /\ pc[s] = "Composing"
                 /\ turn'[s].prompt[1].context = turn[s].context
                 /\ turn[s].text = "" /\ turn'[s].text = ""
          /\ turn'[s].text # turn[s].text /\ turn'[s].text # "" =>
                 /\ pc[s] = "Generating"
                 /\ turn[s].prompt # <<>>
          /\ (/\ HasState(s) /\ HasState(s)'
              /\ \/ Answered(Messages(s)') > Answered(Messages(s))
                 \/ Len(Memory(s)') > Len(Memory(s))) =>
                 /\ pc[s] = "Generating" /\ pc'[s] = "idle"
                 /\ turn[s].stream = <<>>
                 /\ turn[s].prompt # <<>>]_vars

\* All tokens of an answer were delivered for a prompt that holds chunks
\* found by the search, while the turn of another session has failed.
C12_Witness ==
    \E s \in Sessions :
        /\ pc[s] = "Generating"
        /\ turn[s].stream = <<>>
        /\ turn[s].text \in FullAnswers
        /\ Context(s) # {}
        /\ \E t \in Sessions \ {s} : pc[t] \in Failed

\* C13: the search for a question returns at most 4 chunks, all of them rows
\* of the table searched, and as many as the table holds when it holds fewer
\* than 4; a turn never holds more than 4 chunks as context.
C13_AtMostTopK ==
    [][\A s \in Sessions :
          /\ Cardinality(Context(s)') <= 4
          /\ (pc[s] = "Retrieving" /\ pc'[s] = "Composing") =>
                 LET rows == tables[turn[s].table_name]
                     found == turn'[s].context
                 IN  /\ Cardinality(found) <= 4
                     /\ Len(rows) < 4 => Cardinality(found) = Len(rows)
                     /\ Len(rows) >= 4 => Cardinality(found) = 4
                     /\ \A hit \in found :
                           hit.id \in 1..Len(rows) /\ hit.row = rows[hit.id]]_vars

\* A search of a table of 6 rows returned 4 chunks, while the prompt of
\* another turn holds the 3 chunks that were all the table held at its search.
C13_Witness ==
    \E s \in Sessions :
        /\ pc[s] = "Composing"
        /\ Len(tables[turn[s].table_name]) = 6
        /\ Cardinality(turn[s].context) = 4
        /\ \E t \in Sessions \ {s} :
              /\ pc[t] = "Generating"
              /\ Cardinality(Context(t)) = 3

(***************************************************************************)
(* Uploads.                                                                *)
(***************************************************************************)
\* The characters of a page: its paragraphs and the blank lines between.
RECURSIVE Chars(_)
Chars(paragraphs) ==
    IF paragraphs = <<>> THEN 0
    ELSE Head(paragraphs)
         + (IF Len(paragraphs) > 1 THEN blank_line ELSE 0)
         + Chars(Tail(paragraphs))

\* The rows a step has added at the end of table tn.
Added(tn) ==
    LET old == IF tn \in DOMAIN tables THEN tables[tn] ELSE <<>>
    IN  IF IsPrefix(old, tables'[tn])
        THEN SubSeq(tables'[tn], Len(old) + 1, Len(tables'[tn]))
        ELSE <<>>

\* The uploaded file the rows come from.
FileOf(rows) == CHOOSE f \in TextFiles : f.name = rows[1].doc.source

\* The step has written to tn the chunks of a .txt file of 3,400 characters.
WroteText3400(tn) ==
    /\ Added(tn) # <<>>
    /\ EndsWith(FileOf(Added(tn)).name, "txt")
    /\ Chars(FileOf(Added(tn)).pages[1]) = 3400

\* The rows are chunks of one file, in source order, of at most 1500
\* characters each, written by the user of the table.
ChunksInOrder(rows, tn) ==
    /\ \A i \in 1..Len(rows) :
          /\ rows[i].doc.source = rows[1].doc.source
          /\ rows[i].doc.end - rows[i].doc.start <= 1500
          /\ rows[i].doc.start < rows[i].doc.end
          /\ tn = table_name(rows[i].uploaded_by)
    /\ \A i \in 1..(Len(rows) - 1) :
          /\ rows[i].doc.start < rows[i + 1].doc.start
          /\ rows[i].doc.end < rows[i + 1].doc.end

\* The characters two chunks share (none when the second starts behind the
\* first).
Shared(a, b) == IF a.end > b.start THEN a.end - b.start ELSE 0

\* C14, as claimed: an upload of a .txt file of 3,400 characters writes
\* exactly 3 chunks to the table of the uploader and to no other, each of at
\* most 1500 characters, in source order, each sharing at least 200
\* characters with the next.
C14_ThreeChunks ==
    [][\A tn \in DOMAIN tables' :
          /\ (tn \in DOMAIN tables /\ tables'[tn] # tables[tn]) =>
                 \A other \in DOMAIN tables \ {tn} : tables'[other] = tables[other]
          /\ WroteText3400(tn) =>
                 LET rows == Added(tn)
                 IN  /\ Len(rows) = 3
                     /\ ChunksInOrder(rows, tn)
                     /\ \A i \in 1..(Len(rows) - 1) :
                           Shared(rows[i].doc, rows[i + 1].doc) >= 200]_vars

\* C14, amended: an upload of a .txt file of 3,400 characters writes its
\* chunks to the table of the uploader and to no other: each of at most 1500
\* characters, in source order, from the first character of the text to the
\* last, leaving out nothing but blank lines, each sharing at most 200
\* characters with the next; when the text holds no separator these are
\* exactly 3 chunks, each sharing exactly 200 characters with the next.
C14_ChunksOfTheText ==
    [][\A tn \in DOMAIN tables' :
          /\ (tn \in DOMAIN tables /\ tables'[tn] # tables[tn]) =>
                 \A other \in DOMAIN tables \ {tn} : tables'[other] = tables[other]
          /\ WroteText3400(tn) =>
                 LET rows == Added(tn)
                     paragraphs == FileOf(rows).pages[1]
                 IN  /\ ChunksInOrder(rows, tn)
                     /\ rows[1].doc.start = 0
                     /\ rows[Len(rows)].doc.end = 3400
                     /\ \A i \in 1..(Len(rows) - 1) :
                           /\ Shared(rows[i].doc, rows[i + 1].doc) <= 200
                           /\ rows[i + 1].doc.start <= rows[i].doc.end + blank_line
                     /\ Len(paragraphs) = 1 =>
                           /\ Len(rows) = 3
                           /\ \A i \in 1..2 :
                                 Shared(rows[i].doc, rows[i + 1].doc) = 200]_vars

\* A table holds the 3 chunks of the text without separator, cut at 1500
\* and 2800, and behind them the 3 chunks of a text of three paragraphs.
C14_Witness ==
    \E tn \in DOMAIN tables :
        /\ Len(tables[tn]) = 6
        /\ \A i \in 1..3 : tables[tn][i].doc.source = "notes.txt"
        /\ tables[tn][1].doc.end = 1500
        /\ tables[tn][2].doc.end = 2800
        /\ tables[tn][3].doc.end = 3400
        /\ tables[tn][3].doc.start = 2600
        /\ \A i \in 4..6 : tables[tn][i].doc.source = "essay.txt"

(***************************************************************************)
(* Streaming.                                                              *)
(***************************************************************************)
\* C15: while an answer streams, the text of the handler is the tokens that
\* have arrived, joined in their order, and the placeholder shows that text
\* followed by the cursor mark, so what is shown (less the mark) is a prefix
\* of the full answer; every token is rendered in the step it arrives; and
\* the answer written to the memory and to the transcript is the text of the
\* handler after the last token.
C15_StreamedTextIsTheAnswer ==
    /\ [](\A s \in Sessions :
            pc[s] = "Generating" =>
               /\ turn[s].text = Join(turn[s].tokens)
               /\ turn[s].tokens # <<>> => turn[s].shown = turn[s].text \o "▌"
               /\ turn[s].tokens = <<>> => turn[s].shown = ""
               /\ IsPrefix(turn[s].text, Join(turn[s].tokens \o turn[s].stream))
               /\ Join(turn[s].tokens \o turn[s].stream) \in FullAnswers)
    /\ [][\A s \in Sessions :
            /\ (/\ pc[s] = "Generating"
                /\ pc'[s] = "Generating"
                /\ turn'[s] # turn[s]) =>
                   /\ turn[s].stream # <<>>
                   /\ turn'[s].stream = Tail(turn[s].stream)
                   /\ turn'[s].tokens = Append(turn[s].tokens, Head(turn[s].stream))
                   /\ turn'[s].shown = Join(turn'[s].tokens) \o "▌"
            /\ (/\ pc[s] = "Generating"
                /\ pc'[s] = "idle"
                /\ session_state'[s] # session_state[s]) =>
                   /\ turn[s].stream = <<>>
                   /\ Messages(s)' = Append(Messages(s), AIMessage(turn[s].text))
                   /\ Memory(s)' = Memory(s) \o <<HumanMessage(turn[s].question),
                                                  AIMessage(turn[s].text)>>]_vars

\* The second of two tokens has arrived: the placeholder shows both and the
\* mark; an answer of one token is already in the transcript.
C15_Witness ==
    \E s \in Sessions :
        /\ pc[s] = "Generating"
        /\ turn[s].tokens = <<"b", "a">>
        /\ turn[s].stream = <<>>
        /\ turn[s].shown = "ba▌"
        /\ Messages(s)[Len(Messages(s)) - 1] = AIMessage("a")

(***************************************************************************)
(* The clear action.                                                       *)
(***************************************************************************)
\* C16: a completed clear leaves the session that ran it with an empty
\* memory and the welcome message as its whole transcript, leaves the table
\* of its user empty, and leaves alone every other table and the memory,
\* the transcript and the running turn of every other session.
C16_ClearFrame ==
    [][\A s \in Sessions :
          Clear(s) =>
             /\ Memory(s)' = <<>>
             /\ Messages(s)' = <<AIMessage("welcome")>>
             /\ tables'[table_name(auth[s])] = <<>>
             /\ \A tn \in DOMAIN tables' \ {table_name(auth[s])} :
                   tn \in DOMAIN tables /\ tables'[tn] = tables[tn]
             /\ \A t \in Sessions \ {s} :
                   /\ session_state'[t] = session_state[t]
                   /\ turn'[t] = turn[t]
                   /\ pc'[t] = pc[t]
                   /\ auth'[t] = auth[t]]_vars

\* A session has cleared: its memory and the table are empty; a turn of
\* another session still holds chunks of that table, and the table of
\* another user holds its rows.
C16_Witness ==
    \E s \in Sessions :
        /\ auth[s] = "michel"
        /\ pc[s] = "idle"
        /\ table_name("michel") \in cleared
        /\ tables[table_name("michel")] = <<>>
        /\ Memory(s) = <<>>
        /\ Messages(s) = <<AIMessage("welcome")>>
        /\ table_name("anna") \in DOMAIN tables
        /\ Len(tables[table_name("anna")]) = 3
        /\ \E t \in Sessions \ {s} :
              /\ pc[t] = "Generating"
              /\ \E hit \in Context(t) : hit.row.uploaded_by = "michel"
              /\ Len(Messages(t)) = 2

\* C17: only a session logged in as michel can clear, and a table loses
\* rows only when such a session, between two turns, clears the table of
\* michel; the table of every other user keeps the rows it has, in their
\* order, in every step: it only grows.
C17_OnlyMichelClears ==
    [][/\ \A s \in Sessions : Clear(s) => auth[s] = "michel"
       /\ \A tn \in DOMAIN tables :
             /\ tn \in DOMAIN tables'
             /\ ~ IsPrefix(tables[tn], tables'[tn]) =>
                   /\ tn = table_name("michel")
                   /\ tables'[tn] = <<>>
                   /\ \E s \in Sessions : auth[s] = "michel" /\ pc[s] \in Quiet
       /\ \A u \in Usernames \ {"michel"} :
             table_name(u) \in DOMAIN tables =>
                 IsPrefix(tables[table_name(u)], tables'[table_name(u)])]_vars

\* The table of anna has grown by two uploads, and the table of michel was
\* cleared while anna was logged in.
C17_Witness ==
    /\ table_name("anna") \in DOMAIN tables
    /\ Len(tables[table_name("anna")]) = 6
    /\ table_name("michel") \in cleared
    /\ \E s \in Sessions : auth[s] = "anna" /\ pc[s] \in InFlight

(***************************************************************************)
(* Logging out and in.                                                     *)
(***************************************************************************)
\* C18: a run of a session whose user is not logged in (the login was
\* refused, nobody is logged in, the user has logged out) leaves the session
\* state empty; a user name enters a session only through such a run, so
\* the first run of a login finds no state and starts with an empty memory
\* and the welcome message as the whole transcript; and the history of a
\* prompt is read from the memory of the current login, under whatever user
\* name.
C18_LoggedOutClears ==
    /\ [](\A s \in Sessions :
            /\ auth[s] = "login_form" => session_state[s] = <<>>
            /\ auth[s] \notin Usernames => pc[s] = "idle" /\ turn[s] = NoTurn)
    /\ [][\A s \in Sessions :
            /\ (LoginFailed(s) \/ NotLoggedIn(s)) =>
                   /\ session_state'[s] = <<>>
                   /\ auth'[s] = "login_form"
            /\ (auth[s] \in Usernames /\ auth'[s] # auth[s]) =>
                   auth'[s] = "logged_out"
            /\ auth[s] = "logged_out" => auth'[s] \in LoggedOut
            /\ (auth[s] \notin Usernames /\ auth'[s] \in Usernames) =>
                   /\ session_state[s] = <<>>
                   /\ Memory(s)' = <<>>
                   /\ Messages(s)' = <<AIMessage("welcome")>>
            /\ (pc[s] # "Retrieving" /\ pc'[s] = "Retrieving") =>
                   /\ auth[s] \in Usernames
                   /\ HasState(s)
                   /\ turn'[s].history = load_memory_variables(Memory(s))]_vars

\* In the browser session that michel used and cleared, anna is logged in
\* and her first question runs with a prompt whose history is empty.
C18_Witness ==
    \E s \in Sessions :
        /\ auth[s] = "anna"
        /\ table_name("michel") \in cleared
        /\ pc[s] = "Generating"
        /\ turn[s].prompt[1].history = <<>>
        /\ Memory(s) = <<>>
        /\ Len(Messages(s)) = 2

(***************************************************************************)
(* Transcript and memory together.                                         *)
(***************************************************************************)
\* The questions in a sequence of messages.
Questioned(m) == Cardinality({i \in 1..Len(m) : m[i].type = "human"})

\* C19: between the runs of a session that is logged in, the transcript
\* starts with the welcome message and holds, besides it, as many answers as
\* there are turns in the memory (all turns saved since the login or the
\* last clear, also those the window no longer shows), never more answers
\* than questions; the answered questions of the transcript with their
\* answers are the messages of the memory, in order.
C19_AnswersAreTheSavedTurns ==
    \A s \in Sessions :
        (auth[s] \in Usernames /\ pc[s] \in Quiet /\ HasState(s)) =>
            /\ Messages(s)[1] = AIMessage("welcome")
            /\ 2 * (Answered(Messages(s)) - 1) = Len(Memory(s))
            /\ Answered(Messages(s)) - 1 <= Questioned(Messages(s))
            /\ Exchanges(Messages(s)) = Memory(s)

\* Between two runs: four answers in the transcript and four turns in the
\* memory, of which the window shows three.
C19_Witness ==
    \E s \in Sessions :
        /\ auth[s] \in Usernames
        /\ pc[s] = "idle"
        /\ Answered(Messages(s)) = 5
        /\ Len(Memory(s)) = 8
        /\ Len(Snapshot(s)) = 6

====
